---- MODULE Spec2Model ----
(***************************************************************************)
(* Model of the text-to-SQL translation pipeline of src/src/helper.py      *)
(* (class TextToSQLConverter): the schema registry built by __init__, the   *)
(* five extraction passes of _parse_query, and _build_sql_query, driven by *)
(* convert_to_sql.                                                         *)
(*                                                                         *)
(* Python strings are modelled twice: as TLA+ strings where the code only  *)
(* compares or concatenates them, and as sequences of one-character        *)
(* strings (Spell) where the code looks inside them (substring tests,      *)
(* regular expressions, split, strip, int).  Str turns characters back     *)
(* into a string.                                                          *)
(***************************************************************************)
EXTENDS Integers, Sequences, FiniteSets, TLC

VARIABLES
    table_relationships, \* self.table_relationships (helper.py 19-32)
    table_columns,       \* self.table_columns (helper.py 35-61), names only
    patterns,            \* self.patterns (helper.py 64-87)
    hashSeed,            \* the process's string-hash seed: fixes set iteration order
    pc,                  \* position of the one convert_to_sql call in progress
    text,                \* the argument of the current (or last) call, as its words
    doc,                 \* the analysis of the text: one annotation per token
    components,          \* the intent accumulator of the current (or last) call
    result,              \* outcome of the last finished call
    prev,                \* outcome of the call before it, when it had the same text
    second               \* a second call on the same converter, made by another thread

vars == <<table_relationships, table_columns, patterns, hashSeed, pc, text, doc,
          components, result, prev, second>>

registry == <<table_relationships, table_columns, patterns>>

(***************************************************************************)
(* Bounds of the model.                                                    *)
(***************************************************************************)
\* An input text is the concatenation of at most MaxPhrases phrases.
MaxPhrases == 2
\* The analyzer attaches to a preposition only tokens among the MaxSpan
\* tokens that follow it.
MaxSpan == 3

(***************************************************************************)
(* Spelling of every string the code looks inside.                         *)
(***************************************************************************)
Spell ==
    "employees" :> <<"e", "m", "p", "l", "o", "y", "e", "e", "s">> @@
    "departments" :> <<"d", "e", "p", "a", "r", "t", "m", "e", "n", "t", "s">> @@
    "projects" :> <<"p", "r", "o", "j", "e", "c", "t", "s">> @@
    "employee_id" :> <<"e", "m", "p", "l", "o", "y", "e", "e", "_", "i", "d">> @@
    "name" :> <<"n", "a", "m", "e">> @@
    "department" :> <<"d", "e", "p", "a", "r", "t", "m", "e", "n", "t">> @@
    "salary" :> <<"s", "a", "l", "a", "r", "y">> @@
    "hire_date" :> <<"h", "i", "r", "e", "_", "d", "a", "t", "e">> @@
    "role" :> <<"r", "o", "l", "e">> @@
    "email" :> <<"e", "m", "a", "i", "l">> @@
    "department_id" :> <<"d", "e", "p", "a", "r", "t", "m", "e", "n", "t", "_", "i", "d">> @@
    "budget" :> <<"b", "u", "d", "g", "e", "t">> @@
    "location" :> <<"l", "o", "c", "a", "t", "i", "o", "n">> @@
    "head_id" :> <<"h", "e", "a", "d", "_", "i", "d">> @@
    "project_id" :> <<"p", "r", "o", "j", "e", "c", "t", "_", "i", "d">> @@
    "start_date" :> <<"s", "t", "a", "r", "t", "_", "d", "a", "t", "e">> @@
    "end_date" :> <<"e", "n", "d", "_", "d", "a", "t", "e">> @@
    "status" :> <<"s", "t", "a", "t", "u", "s">> @@
    "average" :> <<"a", "v", "e", "r", "a", "g", "e">> @@
    "mean" :> <<"m", "e", "a", "n">> @@
    "typical" :> <<"t", "y", "p", "i", "c", "a", "l">> @@
    "total" :> <<"t", "o", "t", "a", "l">> @@
    "sum" :> <<"s", "u", "m">> @@
    "combined" :> <<"c", "o", "m", "b", "i", "n", "e", "d">> @@
    "count" :> <<"c", "o", "u", "n", "t">> @@
    "highest" :> <<"h", "i", "g", "h", "e", "s", "t">> @@
    "maximum" :> <<"m", "a", "x", "i", "m", "u", "m">> @@
    "most" :> <<"m", "o", "s", "t">> @@
    "top" :> <<"t", "o", "p">> @@
    "lowest" :> <<"l", "o", "w", "e", "s", "t">> @@
    "minimum" :> <<"m", "i", "n", "i", "m", "u", "m">> @@
    "least" :> <<"l", "e", "a", "s", "t">> @@
    "bottom" :> <<"b", "o", "t", "t", "o", "m">> @@
    "is" :> <<"i", "s">> @@
    "equals" :> <<"e", "q", "u", "a", "l", "s">> @@
    "between" :> <<"b", "e", "t", "w", "e", "e", "n">> @@
    "from" :> <<"f", "r", "o", "m">> @@
    "range" :> <<"r", "a", "n", "g", "e">> @@
    "like" :> <<"l", "i", "k", "e">> @@
    "contains" :> <<"c", "o", "n", "t", "a", "i", "n", "s">> @@
    "greater" :> <<"g", "r", "e", "a", "t", "e", "r">> @@
    "less" :> <<"l", "e", "s", "s">> @@
    "over" :> <<"o", "v", "e", "r">> @@
    "above" :> <<"a", "b", "o", "v", "e">> @@
    "under" :> <<"u", "n", "d", "e", "r">> @@
    "below" :> <<"b", "e", "l", "o", "w">> @@
    "than" :> <<"t", "h", "a", "n">> @@
    "in" :> <<"i", "n">> @@
    "with" :> <<"w", "i", "t", "h">> @@
    "where" :> <<"w", "h", "e", "r", "e">> @@
    "order" :> <<"o", "r", "d", "e", "r">> @@
    "sort" :> <<"s", "o", "r", "t">> @@
    "ed" :> <<"e", "d">> @@
    "by" :> <<"b", "y">> @@
    "desc" :> <<"d", "e", "s", "c">> @@
    "ending" :> <<"e", "n", "d", "i", "n", "g">> @@
    "asc" :> <<"a", "s", "c">> @@
    "first" :> <<"f", "i", "r", "s", "t">> @@
    "limit" :> <<"l", "i", "m", "i", "t">> @@
    "show" :> <<"s", "h", "o", "w">> @@
    "Top" :> <<"T", "o", "p">> @@
    "sorted" :> <<"s", "o", "r", "t", "e", "d">> @@
    "5" :> <<"5">> @@
    "0" :> <<"0">> @@
    "3" :> <<"3">> @@
    "80000" :> <<"8", "0", "0", "0", "0">> @@
    "description" :> <<"d", "e", "s", "c", "r", "i", "p", "t", "i", "o", "n">> @@
    "and" :> <<"a", "n", "d">> @@
    "avg" :> <<"a", "v", "g">> @@
    "max" :> <<"m", "a", "x">> @@
    "min" :> <<"m", "i", "n">> @@
    "AVG" :> <<"A", "V", "G">> @@
    "SUM" :> <<"S", "U", "M">> @@
    "COUNT" :> <<"C", "O", "U", "N", "T">> @@
    "MAX" :> <<"M", "A", "X">> @@
    "MIN" :> <<"M", "I", "N">> @@
    "SELECT" :> <<"S", "E", "L", "E", "C", "T">> @@
    "FROM" :> <<"F", "R", "O", "M">> @@
    "JOIN" :> <<"J", "O", "I", "N">> @@
    "ON" :> <<"O", "N">> @@
    "WHERE" :> <<"W", "H", "E", "R", "E">> @@
    "AND" :> <<"A", "N", "D">> @@
    "HAVING" :> <<"H", "A", "V", "I", "N", "G">> @@
    "LIMIT" :> <<"L", "I", "M", "I", "T">> @@
    "BETWEEN" :> <<"B", "E", "T", "W", "E", "E", "N">> @@
    "LIKE" :> <<"L", "I", "K", "E">> @@
    "as" :> <<"a", "s">> @@
    "ASC" :> <<"A", "S", "C">> @@
    "DESC" :> <<"D", "E", "S", "C">> @@
    "number of" :> <<"n", "u", "m", "b", "e", "r", " ", "o", "f">> @@
    "how many" :> <<"h", "o", "w", " ", "m", "a", "n", "y">> @@
    "equal to" :> <<"e", "q", "u", "a", "l", " ", "t", "o">> @@
    "greater than" :> <<"g", "r", "e", "a", "t", "e", "r", " ", "t", "h", "a", "n">> @@
    "more than" :> <<"m", "o", "r", "e", " ", "t", "h", "a", "n">> @@
    "less than" :> <<"l", "e", "s", "s", " ", "t", "h", "a", "n">> @@
    "similar to" :> <<"s", "i", "m", "i", "l", "a", "r", " ", "t", "o">> @@
    "=" :> <<"=">> @@
    ">" :> <<">">> @@
    "<" :> <<"<">> @@
    "GROUP BY" :> <<"G", "R", "O", "U", "P", " ", "B", "Y">> @@
    "ORDER BY" :> <<"O", "R", "D", "E", "R", " ", "B", "Y">>

S(str) == Spell[str]

(***************************************************************************)
(* Character-level string operations of Python that the code uses.         *)
(***************************************************************************)
UpperCase == <<"A", "B", "C", "D", "E", "F", "G", "H", "I", "J", "K", "L", "M",
               "N", "O", "P", "Q", "R", "S", "T", "U", "V", "W", "X", "Y", "Z">>
LowerCase == <<"a", "b", "c", "d", "e", "f", "g", "h", "i", "j", "k", "l", "m",
               "n", "o", "p", "q", "r", "s", "t", "u", "v", "w", "x", "y", "z">>
Digits == <<"0", "1", "2", "3", "4", "5", "6", "7", "8", "9">>

Range(seq) == {seq[i] : i \in DOMAIN seq}
IndexIn(seq, c) == CHOOSE i \in DOMAIN seq : seq[i] = c

\* str.lower() and str.upper(), one character at a time
LowerOf == [c \in Range(UpperCase) |-> LowerCase[IndexIn(UpperCase, c)]]
UpperOf == [c \in Range(LowerCase) |-> UpperCase[IndexIn(LowerCase, c)]]
LowerChar(c) == IF c \in DOMAIN LowerOf THEN LowerOf[c] ELSE c
UpperChar(c) == IF c \in DOMAIN UpperOf THEN UpperOf[c] ELSE c
Lower(s) == [i \in 1..Len(s) |-> LowerChar(s[i])]
Upper(s) == [i \in 1..Len(s) |-> UpperChar(s[i])]

\* the regular-expression classes \d, \w and \s on the model's alphabet
DigitChars == Range(Digits)
WordChars == Range(LowerCase) \cup Range(UpperCase) \cup DigitChars \cup {"_"}
SpaceChars == {" ", "\n"}
IsDigit(c) == c \in DigitChars
IsWordChar(c) == c \in WordChars
IsSpace(c) == c \in SpaceChars

\* characters back to a string
RECURSIVE Str(_)
Str(cs) ==
    IF cs = <<>> THEN ""
    ELSE IF Len(cs) = 1 THEN cs[1]
    ELSE Str(SubSeq(cs, 1, Len(cs) \div 2)) \o Str(SubSeq(cs, Len(cs) \div 2 + 1, Len(cs)))

\* int(digits)
RECURSIVE ParseInt(_)
ParseInt(ds) ==
    IF ds = <<>> THEN 0
    ELSE ParseInt(SubSeq(ds, 1, Len(ds) - 1)) * 10 + (IndexIn(Digits, ds[Len(ds)]) - 1)

\* str(n) for n >= 0
RECURSIVE IntChars(_)
IntChars(n) ==
    IF n < 10 THEN <<Digits[n + 1]>>
    ELSE Append(IntChars(n \div 10), Digits[(n % 10) + 1])

StartsWithAt(s, i, lit) ==
    /\ i >= 1
    /\ i + Len(lit) - 1 <= Len(s)
    /\ \A k \in 1..Len(lit) : s[i + k - 1] = lit[k]

\* sub in s
Contains(s, sub) == \E i \in 1..(Len(s) - Len(sub) + 1) : StartsWithAt(s, i, sub)

\* s.find(sub) + 1: the first place sub occurs at or after i, 0 when none
\* the least place at or after i where Match holds, 0 when there is none
FirstPlace(s, i, Match(_)) ==
    LET places == {j \in i..Len(s) : Match(j)}
    IN  IF places = {} THEN 0 ELSE CHOOSE j \in places : \A k \in places : j <= k

FindFrom(s, sub, i) == FirstPlace(s, i, LAMBDA j : StartsWithAt(s, j, sub))

\* s.split(sep), sep not empty
RECURSIVE Split(_, _)
Split(s, sep) ==
    LET at == FindFrom(s, sep, 1)
    IN  IF at = 0 THEN <<s>>
        ELSE <<SubSeq(s, 1, at - 1)>> \o Split(SubSeq(s, at + Len(sep), Len(s)), sep)

\* s.strip()
RECURSIVE LStrip(_)
LStrip(s) == IF s # <<>> /\ IsSpace(Head(s)) THEN LStrip(Tail(s)) ELSE s
RECURSIVE RStrip(_)
RStrip(s) ==
    IF s # <<>> /\ IsSpace(s[Len(s)]) THEN RStrip(SubSeq(s, 1, Len(s) - 1)) ELSE s
Strip(s) == LStrip(RStrip(s))

\* sep.join(parts)
RECURSIVE Join(_, _)
Join(parts, sep) ==
    IF parts = <<>> THEN <<>>
    ELSE IF Len(parts) = 1 THEN parts[1]
    ELSE parts[1] \o sep \o Join(Tail(parts), sep)

\* the elements of seq that satisfy Keep, in order
Filter(seq, Keep(_)) == SelectSeq(seq, Keep)

\* the concatenation of a sequence of sequences
RECURSIVE Flatten(_)
Flatten(seqs) == IF seqs = <<>> THEN <<>> ELSE Head(seqs) \o Flatten(Tail(seqs))

\* the first place at or after i that holds no character of the class
SkipWhile(s, i, InClass(_)) ==
    IF i > Len(s) THEN i
    ELSE CHOOSE j \in i..(Len(s) + 1) :
            /\ j = Len(s) + 1 \/ ~InClass(s[j])
            /\ \A k \in i..(j - 1) : InClass(s[k])

(***************************************************************************)
(* The schema registry that __init__ builds.                               *)
(***************************************************************************)
InitTableRelationships ==
    "employees" :>
        ( "departments" :> [type |-> "many_to_one", through |-> "",
                            keys |-> <<"department", "name">>] @@
          "projects" :> [type |-> "many_to_many", through |-> "departments",
                         keys |-> <<"department", "name">>] ) @@
    "departments" :>
        ( "employees" :> [type |-> "one_to_many", through |-> "",
                          keys |-> <<"name", "department">>] @@
          "projects" :> [type |-> "one_to_many", through |-> "",
                         keys |-> <<"department_id", "department_id">>] ) @@
    "projects" :>
        ( "departments" :> [type |-> "many_to_one", through |-> "",
                            keys |-> <<"department_id", "department_id">>] @@
          "employees" :> [type |-> "many_to_many", through |-> "departments",
                          keys |-> <<"department_id", "department_id">>] )

\* The dict keeps insertion order: a sequence of tables, each with the sequence
\* of its column names (the columns' metadata is read by no code).
InitTableColumns ==
    << [table |-> "employees",
        columns |-> <<"employee_id", "name", "department", "salary", "hire_date",
                      "role", "email">>],
       [table |-> "departments",
        columns |-> <<"department_id", "name", "budget", "location", "head_id">>],
       [table |-> "projects",
        columns |-> <<"project_id", "name", "department_id", "start_date", "end_date",
                      "budget", "status">>] >>

\* The 'select' and 'order' entries of self.patterns are read by no code and
\* are left out.
InitPatterns ==
    [ aggregate |->
        << [type |-> "avg", words |-> <<"average", "mean", "typical">>],
           [type |-> "sum", words |-> <<"total", "sum", "combined">>],
           [type |-> "count", words |-> <<"count", "number of", "how many">>],
           [type |-> "max", words |-> <<"highest", "maximum", "most", "top">>],
           [type |-> "min", words |-> <<"lowest", "minimum", "least", "bottom">>] >>,
      conditions |->
        << [type |-> "equals", words |-> <<"is", "equals", "equal to", "=">>],
           [type |-> "greater", words |-> <<"greater than", "more than", "over", "above", ">">>],
           [type |-> "less", words |-> <<"less than", "under", "below", "<">>],
           [type |-> "between", words |-> <<"between", "from", "range">>],
           [type |-> "like", words |-> <<"like", "contains", "similar to">>] >> ]

\* for table in self.table_columns
TableNames == [i \in DOMAIN table_columns |-> table_columns[i].table]
\* self.table_columns[table], as the sequence of its keys
Columns(table) ==
    table_columns[CHOOSE i \in DOMAIN table_columns : table_columns[i].table = table].columns

\* f"{table}.{column}"
Qualify(table, column) == table \o "." \o column

\* the characters of a qualified column built by Qualify
QualifiedChars(q) ==
    LET tc == CHOOSE tc \in {<<t, c>> : t \in Range(TableNames),
                                         c \in UNION {Range(Columns(t2)) : t2 \in Range(TableNames)}} :
                  Qualify(tc[1], tc[2]) = q
    IN  S(tc[1]) \o <<".">> \o S(tc[2])

(***************************************************************************)
(* The inputs: a text is a sequence of words, the string being the words   *)
(* joined by single blanks.                                                *)
(***************************************************************************)
Phrases ==
    { <<"employees">>, <<"departments">>, <<"projects">>, <<"show">>,
      <<"average", "salary", "by", "department">>,
      <<"with", "salary", "over", "80000">>,
      <<"Top", "5", "employees">>, <<"first", "0">>,
      <<"order", "by", "salary">>,
      <<"sorted", "by", "name", "desc">>,
      <<"order", "by", "budget", "description">> }

RECURSIVE PhraseSeqs(_)
PhraseSeqs(n) ==
    IF n = 0 THEN {<<>>}
    ELSE LET shorter == PhraseSeqs(n - 1)
         IN  shorter \cup {Append(ps, p) : ps \in {q \in shorter : Len(q) = n - 1}, p \in Phrases}

Texts == {Flatten(ps) : ps \in PhraseSeqs(MaxPhrases) \ {<<>>}}

\* the string the caller passes: the words, one blank between two
TextChars(words) == Join([i \in DOMAIN words |-> S(words[i])], <<" ">>)

(***************************************************************************)
(* The linguistic analyzer (spaCy), an external capability.  Its tokens    *)
(* are the blank-separated words of the text.  Its dependency annotation   *)
(* (dep_, rights) is not determined by this code: it is some function of   *)
(* the text, drawn from Analyses when the text is analysed.  The right     *)
(* children of a token are taken to be a run of the tokens that follow it. *)
(***************************************************************************)
Tokens(chars) == Filter(Split(chars, <<" ">>), LAMBDA w : w # <<>>)

Triggers == {S("in"), S("with"), S("where")}

\* what the analyzer may say of token i: a trigger word is a preposition with a
\* run of right children or is something else; of any other token the code
\* reads nothing
Annotations(tokens, i) ==
    IF tokens[i] \in Triggers
    THEN {[dep |-> "pobj", rights |-> {}]} \cup
         {[dep |-> "prep", rights |-> (i + 1)..j] :
            j \in {k \in i..Len(tokens) : k <= i + MaxSpan}}
    ELSE {[dep |-> "pobj", rights |-> {}]}

\* one annotation per token
RECURSIVE AnalysesUpTo(_, _)
AnalysesUpTo(tokens, k) ==
    IF k = 0 THEN {<<>>}
    ELSE {Append(a, c) : a \in AnalysesUpTo(tokens, k - 1), c \in Annotations(tokens, k)}

Analyses(tokens) == AnalysesUpTo(tokens, Len(tokens))

(***************************************************************************)
(* _parse_query: the fresh accumulator and the five extraction passes.     *)
(***************************************************************************)
None == -1

EmptyComponents ==
    [ select |-> [tables |-> {}, columns |-> {}],
      joins |-> <<>>,
      where |-> <<>>,
      group_by |-> <<>>,
      having |-> <<>>,
      order_by |-> <<>>,
      limit |-> None,
      aggregates |-> <<>> ]

\* _extract_entities
ColumnInToken(tokens, column) == \E i \in DOMAIN tokens : Contains(tokens[i], S(column))

TableInToken(tokens, table) ==
    \E i \in DOMAIN tokens : Contains(tokens[i], S(table)) \/ Contains(S(table), tokens[i])

\* a variant without the select-all fallback of lines 154-157
ExtractEntities_NoFallback(tokens, c) ==
    LET named == {t \in Range(TableNames) : TableInToken(tokens, t)}
        columns == {<<t, col>> \in UNION {{t} \X Range(Columns(t)) : t \in Range(TableNames)} :
                        ColumnInToken(tokens, col)}
        tables == named \cup {tc[1] : tc \in columns}
        explicit == {Qualify(tc[1], tc[2]) : tc \in columns}
    IN  [c EXCEPT !.select = [tables |-> tables, columns |-> explicit]]

ExtractEntities(tokens, c) ==
    LET named == {t \in Range(TableNames) : TableInToken(tokens, t)}
        columns == {<<t, col>> \in UNION {{t} \X Range(Columns(t)) : t \in Range(TableNames)} :
                        ColumnInToken(tokens, col)}
        tables == named \cup {tc[1] : tc \in columns}
        explicit == {Qualify(tc[1], tc[2]) : tc \in columns}
        all == UNION {{Qualify(t, col) : col \in Range(Columns(t))} : t \in tables}
    IN  [c EXCEPT !.select = [tables |-> tables,
                              columns |-> IF explicit = {} THEN all ELSE explicit]]

\* _parse_condition_phrase: <<>> stands for None, <<condition>> for a condition
ConditionPatterns ==
    Flatten([i \in DOMAIN patterns.conditions |->
                [j \in DOMAIN patterns.conditions[i].words |->
                    [operator |-> patterns.conditions[i].type,
                     pattern |-> S(patterns.conditions[i].words[j])]]])

ParseConditionPhrase(phrase) ==
    LET Splits(k) == Split(phrase, ConditionPatterns[k].pattern)
        hits == {k \in DOMAIN ConditionPatterns :
                    /\ Contains(phrase, ConditionPatterns[k].pattern)
                    /\ Len(Splits(k)) = 2}
    IN  IF hits = {} THEN <<>>
        ELSE LET k == CHOOSE k \in hits : \A h \in hits : k <= h
             IN  << [column |-> Strip(Splits(k)[1]),
                     operator |-> ConditionPatterns[k].operator,
                     value |-> Strip(Splits(k)[2])] >>

\* ' '.join(t.text for t in token.rights)
RightsPhrase(tokens, rights) ==
    Join(Filter([j \in DOMAIN tokens |-> IF j \in rights THEN tokens[j] ELSE <<>>],
                LAMBDA w : w # <<>>),
         <<" ">>)

\* _extract_conditions
ExtractConditions(tokens, analysis, c) ==
    LET Found(i) ==
            IF /\ analysis[i].dep \in {"prep", "prep_in"}
               /\ tokens[i] \in Triggers
            THEN ParseConditionPhrase(RightsPhrase(tokens, analysis[i].rights))
            ELSE <<>>
    IN  [c EXCEPT !.where = @ \o Flatten([i \in DOMAIN tokens |-> Found(i)])]

\* the aggregate loop of _extract_aggregations
AggregatePatterns ==
    Flatten([i \in DOMAIN patterns.aggregate |->
                [j \in DOMAIN patterns.aggregate[i].words |->
                    [function |-> Str(Upper(S(patterns.aggregate[i].type))),
                     pattern |-> S(patterns.aggregate[i].words[j])]]])

\* every (table, column) of the schema in declaration order
SchemaColumns ==
    Flatten([i \in DOMAIN table_columns |->
                [j \in DOMAIN table_columns[i].columns |->
                    [table |-> table_columns[i].table,
                     column |-> table_columns[i].columns[j]]]])

\* a variant that pairs an aggregate keyword with the first column named only
AggregatesOf_FirstColumn(chars) ==
    LET inText == Filter(SchemaColumns, LAMBDA tc : Contains(chars, S(tc.column)))
        For(k) ==
            IF Contains(chars, AggregatePatterns[k].pattern) /\ inText # <<>>
            THEN <<[function |-> AggregatePatterns[k].function,
                    column |-> Qualify(inText[1].table, inText[1].column)]>>
            ELSE <<>>
    IN  Flatten([k \in DOMAIN AggregatePatterns |-> For(k)])

AggregatesOf(chars) ==
    LET inText == Filter(SchemaColumns, LAMBDA tc : Contains(chars, S(tc.column)))
        For(k) ==
            IF Contains(chars, AggregatePatterns[k].pattern)
            THEN [m \in DOMAIN inText |->
                    [function |-> AggregatePatterns[k].function,
                     column |-> Qualify(inText[m].table, inText[m].column)]]
            ELSE <<>>
    IN  Flatten([k \in DOMAIN AggregatePatterns |-> For(k)])

\* r'by\s+(\w+)' tried at place i: <<>> when it does not match there, else
\* <<[word, end]>>, end being the place after the match
GroupMatchAt(chars, i) ==
    LET word == SkipWhile(chars, i + 2, IsSpace)
        end == SkipWhile(chars, word, IsWordChar)
    IN  IF StartsWithAt(chars, i, S("by")) /\ word > i + 2 /\ end > word
        THEN <<[word |-> SubSeq(chars, word, end - 1), end |-> end]>>
        ELSE <<>>

\* a variant that reads the first match only (re.search for re.findall)
GroupMatches_FirstOnly(chars, i) ==
    LET at == FirstPlace(chars, i, LAMBDA j : GroupMatchAt(chars, j) # <<>>)
    IN  IF at = 0 THEN <<>> ELSE <<GroupMatchAt(chars, at)[1].word>>

\* re.findall(r'by\s+(\w+)', text), scanning from place i: the matches do not overlap
RECURSIVE GroupMatches(_, _)
GroupMatches(chars, i) ==
    LET at == FirstPlace(chars, i, LAMBDA j : GroupMatchAt(chars, j) # <<>>)
    IN  IF at = 0 THEN <<>>
        ELSE <<GroupMatchAt(chars, at)[1].word>>
             \o GroupMatches(chars, GroupMatchAt(chars, at)[1].end)

\* the tables that declare a column of this name, in declaration order
TablesDeclaring(name) ==
    Filter(SchemaColumns, LAMBDA tc : S(tc.column) = name)

GroupByOf(chars) ==
    LET matches == GroupMatches(chars, 1)
    IN  Flatten([m \in DOMAIN matches |->
                    LET hits == TablesDeclaring(matches[m])
                    IN  [h \in DOMAIN hits |-> Qualify(hits[h].table, hits[h].column)]])

\* _extract_aggregations
ExtractAggregations(chars, c) ==
    [c EXCEPT !.aggregates = @ \o AggregatesOf(chars),
              !.group_by = @ \o GroupByOf(chars)]

\* re.search(r'(?:order|sort)(?:ed)?\s+by\s+(\w+)\s*(desc(?:ending)?|asc(?:ending)?)?', text)
\* tried at place i: <<>> when it does not match there, else <<[column, modifier]>>
OrderMatchAt(chars, i) ==
    LET stem == IF StartsWithAt(chars, i, S("order")) THEN i + 5
                ELSE IF StartsWithAt(chars, i, S("sort")) THEN i + 4
                ELSE 0
        ed == IF stem # 0 /\ StartsWithAt(chars, stem, S("ed")) THEN stem + 2 ELSE stem
        by == SkipWhile(chars, ed, IsSpace)
        gap == by + 2
        word == SkipWhile(chars, gap, IsSpace)
        end == SkipWhile(chars, word, IsWordChar)
        mod == SkipWhile(chars, end, IsSpace)
    IN  IF /\ stem # 0
           /\ by > ed
           /\ StartsWithAt(chars, by, S("by"))
           /\ word > gap
           /\ end > word
        THEN << [column |-> SubSeq(chars, word, end - 1),
                 modifier |-> IF StartsWithAt(chars, mod, S("desc")) THEN S("desc")
                              ELSE IF StartsWithAt(chars, mod, S("asc")) THEN S("asc")
                              ELSE <<>>] >>
        ELSE <<>>

\* re.search: the leftmost match
OrderSearch(chars) ==
    LET at == FirstPlace(chars, 1, LAMBDA j : OrderMatchAt(chars, j) # <<>>)
    IN  IF at = 0 THEN <<>> ELSE OrderMatchAt(chars, at)

\* _extract_ordering
ExtractOrdering(chars, c) ==
    LET m == OrderSearch(chars)
    IN  IF m = <<>> THEN c
        ELSE LET direction == IF m[1].modifier # <<>> /\ Contains(m[1].modifier, S("desc"))
                              THEN "DESC" ELSE "ASC"
                 hits == TablesDeclaring(m[1].column)
             IN  [c EXCEPT !.order_by = @ \o
                    [h \in DOMAIN hits |->
                        [column |-> Qualify(hits[h].table, hits[h].column),
                         direction |-> direction]]]

\* re.search(r'(?:top|first|limit)\s+(\d+)', text): <<>> or <<the digits>>
LimitMatchAt(chars, i) ==
    LET kw == IF StartsWithAt(chars, i, S("top")) THEN i + 3
              ELSE IF StartsWithAt(chars, i, S("first")) THEN i + 5
              ELSE IF StartsWithAt(chars, i, S("limit")) THEN i + 5
              ELSE 0
        num == SkipWhile(chars, kw, IsSpace)
        end == SkipWhile(chars, num, IsDigit)
    IN  IF kw # 0 /\ num > kw /\ end > num
        THEN <<SubSeq(chars, num, end - 1)>>
        ELSE <<>>

\* a variant that takes the last match where re.search takes the first
LimitSearch_Last(chars) ==
    LET places == {j \in DOMAIN chars : LimitMatchAt(chars, j) # <<>>}
    IN  IF places = {} THEN <<>>
        ELSE LimitMatchAt(chars, CHOOSE j \in places : \A k \in places : k <= j)

LimitSearch(chars) ==
    LET at == FirstPlace(chars, 1, LAMBDA j : LimitMatchAt(chars, j) # <<>>)
    IN  IF at = 0 THEN <<>> ELSE LimitMatchAt(chars, at)

\* _extract_limits
ExtractLimits(chars, c) ==
    LET m == LimitSearch(chars)
    IN  IF m = <<>> THEN c ELSE [c EXCEPT !.limit = ParseInt(m[1])]

(***************************************************************************)
(* Iteration order of a Python set of strings.  It is fixed by the string  *)
(* hashes, which CPython salts per process (PYTHONHASHSEED): the model     *)
(* draws, per process, an order of the three table names.  A set of tables *)
(* is iterated in that order, a set of qualified columns table by table in *)
(* that order (a sample of the orders the interpreter can produce).        *)
(***************************************************************************)
SchemaTables == {InitTableColumns[i].table : i \in DOMAIN InitTableColumns}

Seeds ==
    {q \in [1..Cardinality(SchemaTables) -> SchemaTables] :
        \A i, j \in DOMAIN q : i # j => q[i] # q[j]}

\* list(components['select']['tables'])
ListOfTables(tables, seed) == Filter(seed, LAMBDA t : t \in tables)

\* iterating components['select']['columns']
ListOfColumns(columns, seed) ==
    LET byTable == Flatten([i \in DOMAIN seed |->
                      [j \in DOMAIN Columns(seed[i]) |->
                          Qualify(seed[i], Columns(seed[i])[j])]])
    IN  Filter(byTable, LAMBDA q : q \in columns)

(***************************************************************************)
(* _build_sql_query.  A line is kept with its clause and its items beside  *)
(* its characters.                                                         *)
(***************************************************************************)
Line(clause, items, chars) == [clause |-> clause, items |-> items, chars |-> chars]

\* f"{agg['function']}({agg['column']}) as {agg['function'].lower()}_{agg['column'].split('.')[-1]}"
AggregateItem(agg) ==
    LET parts == Split(QualifiedChars(agg.column), <<".">>)
    IN  S(agg.function) \o <<"(">> \o QualifiedChars(agg.column) \o <<")", " ">> \o S("as")
        \o <<" ">> \o Lower(S(agg.function)) \o <<"_">> \o parts[Len(parts)]

SelectItems(c, seed) ==
    IF c.aggregates # <<>>
    THEN [i \in DOMAIN c.aggregates |-> AggregateItem(c.aggregates[i])]
    ELSE LET cols == ListOfColumns(c.select.columns, seed)
         IN  [i \in DOMAIN cols |-> QualifiedChars(cols[i])]

SelectLine(c, seed) ==
    LET items == SelectItems(c, seed)
    IN  Line("SELECT", [i \in DOMAIN items |-> Str(items[i])],
             S("SELECT") \o <<" ">> \o Join(items, <<",", " ">>))

FromLine(tables) == Line("FROM", <<tables[1]>>, S("FROM") \o <<" ">> \o S(tables[1]))

\* self.table_relationships[tables[0]][tables[i]] raises KeyError when undeclared
HasEdge(anchor, other) ==
    /\ anchor \in DOMAIN table_relationships
    /\ other \in DOMAIN table_relationships[anchor]

\* a variant that reads the edge in the other direction
JoinKeys_Reversed(anchor, other) == table_relationships[other][anchor].keys

JoinKeys(anchor, other) == table_relationships[anchor][other].keys

JoinLine(anchor, other) ==
    LET keys == JoinKeys(anchor, other)
    IN  Line("JOIN", <<Qualify(anchor, keys[1]), Qualify(other, keys[2])>>,
             S("JOIN") \o <<" ">> \o S(other) \o <<" ">> \o S("ON") \o <<" ">>
             \o S(anchor) \o <<".">> \o S(keys[1]) \o <<" ", "=", " ">>
             \o S(other) \o <<".">> \o S(keys[2]))

JoinLines(tables) == [i \in 1..(Len(tables) - 1) |-> JoinLine(tables[1], tables[i + 1])]

\* condition['value'].split('and'), of which values[0] and values[1] are read
BetweenValues(condition) == Split(condition.value, S("and"))

ConditionItem(condition) ==
    CASE condition.operator = "equals" ->
            condition.column \o <<" ", "=", " ", "'">> \o condition.value \o <<"'">>
      [] condition.operator = "greater" ->
            condition.column \o <<" ", ">", " ">> \o condition.value
      [] condition.operator = "less" ->
            condition.column \o <<" ", "<", " ">> \o condition.value
      [] condition.operator = "between" ->
            condition.column \o <<" ">> \o S("BETWEEN") \o <<" ">>
            \o Strip(BetweenValues(condition)[1]) \o <<" ">> \o S("AND") \o <<" ">>
            \o Strip(BetweenValues(condition)[2])
      [] condition.operator = "like" ->
            condition.column \o <<" ">> \o S("LIKE") \o <<" ", "'", "%">>
            \o condition.value \o <<"%", "'">>

WhereLines(c) ==
    IF c.where = <<>> THEN <<>>
    ELSE LET items == [i \in DOMAIN c.where |-> ConditionItem(c.where[i])]
         IN  << Line("WHERE", [i \in DOMAIN items |-> Str(items[i])],
                     S("WHERE") \o <<" ">> \o Join(items, <<" ">> \o S("AND") \o <<" ">>)) >>

GroupByLines(c) ==
    IF c.group_by = <<>> THEN <<>>
    ELSE << Line("GROUP BY", c.group_by,
                 S("GROUP BY") \o <<" ">>
                 \o Join([i \in DOMAIN c.group_by |-> QualifiedChars(c.group_by[i])],
                         <<",", " ">>)) >>

HavingLines(c) ==
    IF c.having = <<>> THEN <<>>
    ELSE << Line("HAVING", [i \in DOMAIN c.having |-> Str(c.having[i])],
                 S("HAVING") \o <<" ">> \o Join(c.having, <<" ">> \o S("AND") \o <<" ">>)) >>

OrderByLines(c) ==
    IF c.order_by = <<>> THEN <<>>
    ELSE LET items == [i \in DOMAIN c.order_by |->
                          QualifiedChars(c.order_by[i].column) \o <<" ">>
                          \o S(c.order_by[i].direction)]
         IN  << Line("ORDER BY", [i \in DOMAIN items |-> Str(items[i])],
                     S("ORDER BY") \o <<" ">> \o Join(items, <<",", " ">>)) >>

\* a variant that tests `is not None`
LimitLines_NotNone(c) ==
    IF c.limit = None THEN <<>>
    ELSE << Line("LIMIT", <<Str(IntChars(c.limit))>>,
                 S("LIMIT") \o <<" ">> \o IntChars(c.limit)) >>

\* `if components['limit']:` is false for None and for 0
LimitLines(c) ==
    IF c.limit = None \/ c.limit = 0 THEN <<>>
    ELSE << Line("LIMIT", <<Str(IntChars(c.limit))>>,
                 S("LIMIT") \o <<" ">> \o IntChars(c.limit)) >>

\* the exception the builder raises on this intent, "" when it raises none
BuildError(c, tables) ==
    IF tables = <<>> THEN "IndexError"
    ELSE IF \E i \in 2..Len(tables) : ~HasEdge(tables[1], tables[i]) THEN "KeyError"
    ELSE IF \E i \in DOMAIN c.where :
                /\ c.where[i].operator = "between"
                /\ Len(BetweenValues(c.where[i])) < 2
         THEN "IndexError"
    ELSE ""

\* The outcome of a call: the string returned, or the exception raised.  Beside
\* the string are kept the lines the builder wrote (built: clause and items)
\* and the lines of the string as a reader of it finds them (lines: the text
\* between line breaks, and the clause keyword it starts with).
NoResult == [kind |-> "none", error |-> "", built |-> <<>>, lines |-> <<>>, sql |-> ""]

ClauseKeywords ==
    <<"SELECT", "FROM", "JOIN", "WHERE", "GROUP BY", "HAVING", "ORDER BY", "LIMIT">>

\* the clause keyword a line of the string starts with, "" when it starts with none
KeywordOf(row) ==
    LET hits == {k \in DOMAIN ClauseKeywords :
                    StartsWithAt(row, 1, S(ClauseKeywords[k]) \o <<" ">>)}
    IN  IF hits = {} THEN "" ELSE ClauseKeywords[CHOOSE k \in hits : TRUE]

\* Every line but LIMIT ends with a line break; the whole is stripped.
BuildSqlQuery(c, seed) ==
    LET tables == ListOfTables(c.select.tables, seed)
        built == <<SelectLine(c, seed), FromLine(tables)>> \o JoinLines(tables)
                 \o WhereLines(c) \o GroupByLines(c) \o HavingLines(c)
                 \o OrderByLines(c) \o LimitLines(c)
        query == Flatten([i \in DOMAIN built |->
                    built[i].chars \o (IF built[i].clause = "LIMIT" THEN <<>> ELSE <<"\n">>)])
        stripped == Strip(query)
        rows == Split(stripped, <<"\n">>)
    IN  IF BuildError(c, tables) # ""
        THEN [NoResult EXCEPT !.kind = "error", !.error = BuildError(c, tables)]
        ELSE [kind |-> "sql", error |-> "",
              built |-> [i \in DOMAIN built |->
                            [clause |-> built[i].clause, items |-> built[i].items]],
              lines |-> [i \in DOMAIN rows |->
                            [clause |-> KeywordOf(rows[i]), text |-> Str(rows[i])]],
              sql |-> Str(stripped)]

(***************************************************************************)
(* The state machine: one converter in one process, one call at a time.    *)
(***************************************************************************)
\* text.lower(), as the analyzer and the passes see it, and the analyzer's
\* tokens of it
LoweredOf == [t \in Texts |-> Lower(TextChars(t))]
TokensOf == [t \in Texts |-> Tokens(LoweredOf[t])]
Lowered == LoweredOf[text]

\* a thread that is in no call: the locals of convert_to_sql do not exist
IdleCall ==
    [pc |-> "idle", text |-> <<>>, doc |-> <<>>, components |-> EmptyComponents,
     result |-> NoResult]

Init ==
    /\ table_relationships = InitTableRelationships
    /\ table_columns = InitTableColumns
    /\ patterns = InitPatterns
    /\ hashSeed \in Seeds
    /\ pc = "idle"
    /\ text = <<>>
    /\ doc = <<>>
    /\ components = EmptyComponents
    /\ result = NoResult
    /\ prev = NoResult
    /\ second = IdleCall

\* the analyses the analyzer may give of each text
AnalysesOf == [t \in Texts |-> Analyses(TokensOf[t])]

\* convert_to_sql is entered with a new text: the text is lowered and analysed,
\* the accumulator created empty.
ConvertToSql(t) ==
    /\ pc = "idle"
    /\ text = <<>>
    /\ text' = t
    /\ doc' \in AnalysesOf[t]
    /\ components' = EmptyComponents
    /\ pc' = "entities"
    /\ UNCHANGED <<registry, hashSeed, result, prev, second>>

\* convert_to_sql is entered with the text of the last call.  The analyzer is a
\* function of the text: asked the same text again it answers the same.  The
\* outcome of the last call is kept aside.
ConvertAgain ==
    /\ pc = "idle"
    /\ text # <<>>
    /\ prev = NoResult
    /\ prev' = result
    /\ result' = NoResult
    /\ components' = EmptyComponents
    /\ pc' = "entities"
    /\ UNCHANGED <<registry, hashSeed, text, doc, second>>

\* The caller is done with the last question: nothing of the call remains.
Discard ==
    /\ pc = "idle"
    /\ text # <<>>
    /\ pc' = "idle"
    /\ text' = <<>>
    /\ doc' = <<>>
    /\ components' = EmptyComponents
    /\ result' = NoResult
    /\ prev' = NoResult
    /\ UNCHANGED <<registry, hashSeed, second>>

Pass(at, next, after) ==
    /\ pc = at
    /\ components' = after
    /\ pc' = next
    /\ UNCHANGED <<registry, hashSeed, text, doc, result, prev, second>>

StepEntities ==
    Pass("entities", "conditions", ExtractEntities(TokensOf[text], components))

StepConditions ==
    Pass("conditions", "aggregations", ExtractConditions(TokensOf[text], doc, components))

StepAggregations ==
    Pass("aggregations", "ordering", ExtractAggregations(Lowered, components))

StepOrdering ==
    Pass("ordering", "limits", ExtractOrdering(Lowered, components))

StepLimits ==
    Pass("limits", "build", ExtractLimits(Lowered, components))

\* _build_sql_query returns to convert_to_sql, which returns the string or
\* raises ValueError for any exception
StepBuild ==
    /\ pc = "build"
    /\ result' = BuildSqlQuery(components, hashSeed)
    /\ pc' = "idle"
    /\ UNCHANGED <<registry, hashSeed, text, doc, components, prev, second>>

\* The application is started again: a new process, a new hash seed, a new
\* converter.  What the user has been shown stays.
Restart ==
    /\ pc = "idle"
    /\ hashSeed' \in Seeds
    /\ table_relationships' = InitTableRelationships
    /\ table_columns' = InitTableColumns
    /\ patterns' = InitPatterns
    /\ UNCHANGED <<pc, text, doc, components, result, prev, second>>

Next ==
    \/ \E t \in Texts : ConvertToSql(t)
    \/ ConvertAgain
    \/ Discard
    \/ StepEntities
    \/ StepConditions
    \/ StepAggregations
    \/ StepOrdering
    \/ StepLimits
    \/ StepBuild
    \/ Restart

Spec == Init /\ [][Next]_vars

(***************************************************************************)
(* Two threads calling the one converter.  The locals of a call (text,     *)
(* doc, components) are its own; the threads share self, that is the       *)
(* registry, which no line of helper.py writes after __init__.  The calls  *)
(* interleave pass by pass: the variables pc, text, doc, components and    *)
(* result are the locals of the thread that runs, second those of the      *)
(* thread that waits.                                                      *)
(***************************************************************************)
\* the texts the two threads ask
PairTexts ==
    { <<"show">>,
      <<"employees", "projects">>,
      <<"with", "salary", "over", "80000">>,
      <<"order", "by", "salary", "Top", "5", "employees">> }

\* _parse_query: the five passes, in order, on a new accumulator
ParseQuery(t, d) ==
    ExtractLimits(LoweredOf[t],
        ExtractOrdering(LoweredOf[t],
            ExtractAggregations(LoweredOf[t],
                ExtractConditions(TokensOf[t], d,
                    ExtractEntities(TokensOf[t], EmptyComponents)))))

\* the outcome of convert_to_sql(t), nothing else running
Alone(t, d, seed) == BuildSqlQuery(ParseQuery(t, d), seed)

\* a variant that keeps the accumulator of the thread's last call (an
\* accumulator held by the converter instead of created by the call)
ConvertNext_KeepAccumulator(t) ==
    /\ pc = "idle"
    /\ text # <<>>
    /\ text' = t
    /\ doc' \in AnalysesOf[t]
    /\ components' = components
    /\ result' = NoResult
    /\ pc' = "entities"
    /\ UNCHANGED <<registry, hashSeed, prev, second>>

\* the running thread enters convert_to_sql straight after its last call:
\* _parse_query creates the accumulator anew
ConvertNext(t) ==
    /\ pc = "idle"
    /\ text # <<>>
    /\ text' = t
    /\ doc' \in AnalysesOf[t]
    /\ components' = EmptyComponents
    /\ result' = NoResult
    /\ pc' = "entities"
    /\ UNCHANGED <<registry, hashSeed, prev, second>>

\* The interpreter switches threads: the locals of the running call are set
\* aside and those of the other thread's call taken up.  The converter and
\* its registry are the same object for both.
Switch ==
    /\ second' = [pc |-> pc, text |-> text, doc |-> doc, components |-> components,
                  result |-> result]
    /\ pc' = second.pc
    /\ text' = second.text
    /\ doc' = second.doc
    /\ components' = second.components
    /\ result' = second.result
    /\ UNCHANGED <<registry, hashSeed, prev>>

NextTwoCalls ==
    \/ \E t \in PairTexts : ConvertToSql(t)
    \/ \E t \in PairTexts : ConvertNext(t)
    \/ Discard
    \/ StepEntities
    \/ StepConditions
    \/ StepAggregations
    \/ StepOrdering
    \/ StepLimits
    \/ StepBuild
    \/ Switch

SpecTwoCalls == Init /\ [][NextTwoCalls]_vars

(***************************************************************************)
(* What the properties below read.  A call has returned when the converter *)
(* is idle and holds an outcome; its intent is then in components.  The    *)
(* text is read word by word, as the caller wrote it.                      *)
(***************************************************************************)
Returned == pc = "idle" /\ result.kind = "sql"
Raised == pc = "idle" /\ result.kind = "error"

\* the words ws stand in the text one after the other, the first at place i
WordsAt(i, ws) ==
    /\ i + Len(ws) - 1 <= Len(text)
    /\ \A k \in DOMAIN ws : text[i + k - 1] = ws[k]
HasWords(ws) == \E i \in DOMAIN text : WordsAt(i, ws)

LinesOf(clause) == SelectSeq(result.lines, LAMBDA l : l.clause = clause)
BuiltOf(clause) == SelectSeq(result.built, LAMBDA l : l.clause = clause)
DeclaredColumns(table) == Range(Columns(table))
QualifiedColumns(table) == {Qualify(table, c) : c \in DeclaredColumns(table)}
AllColumnNames == UNION {DeclaredColumns(TableNames[i]) : i \in DOMAIN TableNames}

\* ---------------------------------------------------------------- C1
\* the text names table T and holds no other word but the verb "show"
TableOnly(T) ==
    /\ \E i \in DOMAIN text : text[i] = T
    /\ \A i \in DOMAIN text : text[i] \in {T, "show"}

SelectsAllOf(T) ==
    /\ result.kind = "sql"
    /\ Len(result.lines) = 2
    /\ result.built[1].clause = "SELECT"
    /\ Range(result.built[1].items) = QualifiedColumns(T)
    /\ Len(result.built[1].items) = Cardinality(QualifiedColumns(T))
    /\ result.lines[2].text = "FROM " \o T

\* C1: for each of the tables employees, departments and projects, a text
\* whose only schema word is the table's name and that holds no clause keyword
\* is answered by SQL that selects exactly the table's columns, qualified,
\* FROM that table, with no JOIN, WHERE, GROUP BY, ORDER BY or LIMIT line.
C1_TableOnlySelectsAll ==
    \A k \in DOMAIN TableNames :
        (pc = "idle" /\ result.kind # "none" /\ TableOnly(TableNames[k]))
            => SelectsAllOf(TableNames[k])

\* ---------------------------------------------------------------- C2
AverageSalaryText == <<"average", "salary", "by", "department">>
AverageSalaryAnswered == pc = "idle" /\ result.kind # "none" /\ text = AverageSalaryText

\* C2 as it stands: for "average salary by department" the aggregate pass
\* emits AVG(employees.salary) and a group-by on a qualified department
\* column, and the SELECT line is exactly
\* `SELECT AVG(employees.salary) as avg_salary`.
C2_SelectIsAvgSalaryOnly ==
    AverageSalaryAnswered =>
        /\ result.kind = "sql"
        /\ [function |-> "AVG", column |-> "employees.salary"] \in Range(components.aggregates)
        /\ \E g \in Range(components.group_by) :
              g \in {"employees.department", "departments.name", "departments.department_id"}
        /\ result.lines[1].text = "SELECT AVG(employees.salary) as avg_salary"

\* C2, amended: for "average salary by department" the aggregate pass emits
\* an AVG aggregate for each schema column named in the text, department and
\* salary of employees in that order, and a group-by on employees.department;
\* the SELECT line lists both aggregates.
C2_SelectIsAvgOfEachColumnNamed ==
    AverageSalaryAnswered =>
        /\ result.kind = "sql"
        /\ components.aggregates =
              << [function |-> "AVG", column |-> "employees.department"],
                 [function |-> "AVG", column |-> "employees.salary"] >>
        /\ components.group_by = <<"employees.department">>
        /\ result.lines[1].text =
              "SELECT AVG(employees.department) as avg_department, "
              \o "AVG(employees.salary) as avg_salary"

C2_AverageSalaryReturned ==
    /\ Returned
    /\ text = AverageSalaryText
    /\ Len(components.aggregates) = 2
    /\ LinesOf("GROUP BY") # <<>>

\* ---------------------------------------------------------------- C3
\* C3: the same text translated twice under the same schema gives the same
\* string, whatever order the interpreter iterates its sets in.
C3_SameTextSameSql ==
    (pc = "idle" /\ result.kind = "sql" /\ prev.kind = "sql") => result.sql = prev.sql

\* ---------------------------------------------------------------- C4
\* the line the builder is to write for the edge anchor -> other
JoinText(anchor, other, keys) ==
    "JOIN " \o other \o " ON " \o anchor \o "." \o keys[1] \o " = " \o other \o "." \o keys[2]

AnchorIs(table) == result.lines[2].text = "FROM " \o table

\* C4: when the intent holds exactly two tables the returned SQL has exactly
\* one JOIN line, `JOIN <other> ON <anchor>.<k0> = <other>.<k1>` with
\* [k0, k1] the keys the registry declares for the edge anchor -> other; and
\* SQL is returned only when the registry holds an edge from the anchor to
\* every other table of the intent (otherwise the call raises).
C4_OneJoinWithDeclaredKeys ==
    /\ (Returned /\ Cardinality(components.select.tables) = 2) =>
            \E anchor \in components.select.tables :
                \E other \in components.select.tables \ {anchor} :
                    /\ AnchorIs(anchor)
                    /\ Len(LinesOf("JOIN")) = 1
                    /\ LinesOf("JOIN")[1].text =
                          JoinText(anchor, other, table_relationships[anchor][other].keys)
    /\ (pc = "idle" /\ result.kind # "none") =>
            \A anchor \in components.select.tables :
                \A other \in components.select.tables \ {anchor} :
                    (anchor \notin DOMAIN table_relationships
                        \/ other \notin DOMAIN table_relationships[anchor])
                    => (result.kind = "error" \/ ~AnchorIs(anchor))

C4_TwoTablesJoined ==
    /\ Returned
    /\ components.select.tables = {"employees", "projects"}
    /\ AnchorIs("projects")
    /\ Len(LinesOf("JOIN")) = 1

\* ---------------------------------------------------------------- C5
\* C5: the join keys of the registry are columns of the tables they are
\* attached to, so every operand of a JOIN ... ON line the builder writes is
\* a declared column of a declared table.
C5_JoinKeysAreDeclaredColumns ==
    Returned =>
        \A j \in DOMAIN result.built :
            result.built[j].clause = "JOIN" =>
                \A q \in Range(result.built[j].items) :
                    \E k \in DOMAIN TableNames : q \in QualifiedColumns(TableNames[k])

\* ---------------------------------------------------------------- C6
\* C6: for every edge A -> B with keys [l, r] that a JOIN line is written
\* from, the registry holds B -> A with keys [r, l]: the ON equality is the
\* same whichever table is the anchor.
C6_JoinSameFromEitherAnchor ==
    Returned =>
        \A anchor \in DOMAIN table_relationships :
            \A other \in DOMAIN table_relationships[anchor] :
                LET keys == table_relationships[anchor][other].keys
                IN  (AnchorIs(anchor)
                     /\ \E j \in DOMAIN result.lines :
                            result.lines[j].text = JoinText(anchor, other, keys))
                    => /\ other \in DOMAIN table_relationships
                       /\ anchor \in DOMAIN table_relationships[other]
                       /\ table_relationships[other][anchor].keys = <<keys[2], keys[1]>>

\* ---------------------------------------------------------------- C7
\* C7: SQL returned for a text that contains "salary over 80000" has a WHERE
\* line with the condition `employees.salary > 80000`.
C7_SalaryOverGivesQualifiedWhere ==
    (Returned /\ HasWords(<<"salary", "over", "80000">>)) =>
        /\ Len(LinesOf("WHERE")) = 1
        /\ \E j \in DOMAIN result.built :
              /\ result.built[j].clause = "WHERE"
              /\ "employees.salary > 80000" \in Range(result.built[j].items)

\* ---------------------------------------------------------------- C8
LimitWords == {"top", "first", "limit"}
IsNumber(word) == S(word) # <<>> /\ \A k \in DOMAIN S(word) : IsDigit(S(word)[k])
LimitPhraseAt(i) ==
    /\ i + 1 <= Len(text)
    /\ Str(Lower(S(text[i]))) \in LimitWords
    /\ IsNumber(text[i + 1])
\* the place of the first limit phrase of the text, 0 when it has none
FirstLimitPhrase ==
    IF \E i \in DOMAIN text : LimitPhraseAt(i)
    THEN CHOOSE i \in DOMAIN text :
            LimitPhraseAt(i) /\ \A k \in 1..(i - 1) : ~LimitPhraseAt(k)
    ELSE 0
\* the integer of the first limit phrase
FirstLimit == ParseInt(S(text[FirstLimitPhrase + 1]))

OrderWords == {"order", "sort", "sorted", "ordered"}
OrderPhraseAt(i) ==
    /\ i + 2 <= Len(text)
    /\ text[i] \in OrderWords
    /\ text[i + 1] = "by"
    /\ text[i + 2] \in AllColumnNames
FirstOrderPhrase ==
    IF \E i \in DOMAIN text : OrderPhraseAt(i)
    THEN CHOOSE i \in DOMAIN text :
            OrderPhraseAt(i) /\ \A k \in 1..(i - 1) : ~OrderPhraseAt(k)
    ELSE 0
OrderedColumn == text[FirstOrderPhrase + 2]
\* the direction the word after the column asks for
AskedDirection ==
    IF /\ FirstOrderPhrase + 3 <= Len(text)
       /\ text[FirstOrderPhrase + 3] \in {"desc", "descending"}
    THEN "DESC" ELSE "ASC"
OtherDirection == IF AskedDirection = "DESC" THEN "ASC" ELSE "DESC"
TablesWith(column) == {TableNames[k] : k \in {j \in DOMAIN TableNames : column \in DeclaredColumns(TableNames[j])}}

\* C9: SQL returned for a text with "order by <column>" (or sort by, sorted
\* by, ordered by), <column> a schema column, has an ORDER BY line with
\* `<table.column> <direction>`, the direction DESC exactly when the word
\* right after <column> is "desc" or "descending", ASC otherwise.
C9_DirectionFromNextWord ==
    (Returned /\ FirstOrderPhrase # 0) =>
        /\ Len(BuiltOf("ORDER BY")) = 1
        /\ \E t \in TablesWith(OrderedColumn) :
              (Qualify(t, OrderedColumn) \o " " \o AskedDirection)
                  \in Range(BuiltOf("ORDER BY")[1].items)
        /\ \A t \in TablesWith(OrderedColumn) :
              (Qualify(t, OrderedColumn) \o " " \o OtherDirection)
                  \notin Range(BuiltOf("ORDER BY")[1].items)

\* ---------------------------------------------------------------- C10
Rank(clause) ==
    IF \E k \in DOMAIN ClauseKeywords : ClauseKeywords[k] = clause
    THEN CHOOSE k \in DOMAIN ClauseKeywords : ClauseKeywords[k] = clause
    ELSE 0

\* the lines of the string are clauses, one a line, in the fixed order, SELECT
\* and FROM first, no clause but JOIN twice
ClausesInOrder ==
    /\ Len(result.lines) >= 2
    /\ result.lines[1].clause = "SELECT"
    /\ result.lines[2].clause = "FROM"
    /\ \A i \in DOMAIN result.lines : Rank(result.lines[i].clause) # 0
    /\ \A i, j \in DOMAIN result.lines :
          i < j => \/ Rank(result.lines[i].clause) < Rank(result.lines[j].clause)
                   \/ result.lines[i].clause = "JOIN" /\ result.lines[j].clause = "JOIN"

\* the clause is there once when its field is set, and not at all when not
OnceExactlyWhen(clause, set) == Len(LinesOf(clause)) = (IF set THEN 1 ELSE 0)

ListClausesWhenNonEmpty ==
    /\ OnceExactlyWhen("WHERE", components.where # <<>>)
    /\ OnceExactlyWhen("GROUP BY", components.group_by # <<>>)
    /\ OnceExactlyWhen("HAVING", components.having # <<>>)
    /\ OnceExactlyWhen("ORDER BY", components.order_by # <<>>)

\* C10 as it stands: in every returned string the clauses stand one a line
\* in the order SELECT, FROM, JOIN(s), WHERE, GROUP BY, HAVING, ORDER BY,
\* LIMIT, SELECT and FROM always, each of the others at most once and exactly
\* when its intent field is non-empty, LIMIT when the limit field holds an
\* integer.
C10_ClauseWhenFieldSet ==
    Returned =>
        /\ ClausesInOrder
        /\ ListClausesWhenNonEmpty
        /\ OnceExactlyWhen("LIMIT", components.limit # None)

\* C10, amended: the same, LIMIT standing exactly when the limit field holds
\* a positive integer (a limit of 0 gives no LIMIT line).
C10_ClauseWhenFieldTrue ==
    Returned =>
        /\ ClausesInOrder
        /\ ListClausesWhenNonEmpty
        /\ OnceExactlyWhen("LIMIT", components.limit # None /\ components.limit > 0)

C10_ManyClauses ==
    /\ Returned
    /\ Len(LinesOf("JOIN")) = 2
    /\ LinesOf("GROUP BY") # <<>>
    /\ LinesOf("ORDER BY") # <<>>
    /\ LinesOf("LIMIT") # <<>>

\* ---------------------------------------------------------------- C11
Finished == pc = "idle" /\ result.kind # "none"

\* C11: a call whose passes found no table raises and returns no string; a
\* returned string has a SELECT item and a FROM table of the schema; and a
\* call that found a table does not raise for want of a condition, an
\* aggregate, an ordering or a limit.
C11_NoTableRaises ==
    Finished =>
        /\ components.select.tables = {} => result.kind = "error"
        /\ result.kind = "sql" =>
              /\ result.built[1].clause = "SELECT"
              /\ result.built[1].items # <<>>
              /\ \E k \in DOMAIN TableNames : AnchorIs(TableNames[k])
        /\ ( /\ components.select.tables # {}
             /\ \/ components.where = <<>>
                \/ components.aggregates = <<>>
                \/ components.order_by = <<>>
                \/ components.limit = None )
           => result.kind = "sql"

C11_NoTableRaised ==
    /\ Raised
    /\ components.select.tables = {}
    /\ components.select.columns = {}
    /\ components.limit # None

\* ---------------------------------------------------------------- C12
SecondFinished == second.pc = "idle" /\ second.result.kind # "none"

\* C12: whatever calls ran before a call or run beside it, the call starts
\* on an empty accumulator, its outcome is the outcome of the same call run
\* alone, and the registry is as __init__ built it.
C12_CallsIndependent ==
    /\ pc = "entities" => components = EmptyComponents
    /\ second.pc = "entities" => second.components = EmptyComponents
    /\ Finished =>
          /\ components = ParseQuery(text, doc)
          /\ result = Alone(text, doc, hashSeed)
    /\ SecondFinished =>
          /\ second.components = ParseQuery(second.text, second.doc)
          /\ second.result = Alone(second.text, second.doc, hashSeed)
    /\ registry = <<InitTableRelationships, InitTableColumns, InitPatterns>>

\* one thread has finished a call, with a WHERE line, while the other is in
\* the middle of another call
C12_CallsInterleaved ==
    /\ Returned
    /\ components.where # <<>>
    /\ second.pc = "ordering"
    /\ second.text # text
    /\ second.components.select.tables = {"employees", "projects"}

\* ---------------------------------------------------------------- C13
\* _extract_ordering has run in the current (or last) call
AfterOrdering == pc \in {"limits", "build"} \/ Finished

\* C13: after _extract_ordering the order_by list has no entry or one, also
\* when the ordered column is declared in more than one table.
C13_AtMostOneOrderEntry ==
    AfterOrdering => Len(components.order_by) <= 1

\* ---------------------------------------------------------------- C14
\* C14: every column _extract_ordering has put in order_by stands in
\* group_by as well, and a returned string with an ORDER BY line has a
\* GROUP BY line that names every column the ORDER BY line orders by.
C14_OrderedColumnsAreGrouped ==
    /\ AfterOrdering =>
          \A i \in DOMAIN components.order_by :
              components.order_by[i].column \in Range(components.group_by)
    /\ (Returned /\ LinesOf("ORDER BY") # <<>>) =>
          /\ Len(LinesOf("GROUP BY")) = 1
          /\ \A item \in Range(BuiltOf("ORDER BY")[1].items) :
                \E g \in Range(BuiltOf("GROUP BY")[1].items) :
                    item \in {g \o " ASC", g \o " DESC"}

\* an aggregate phrase with its own "by" before the order phrase
C14_OrderedAfterGrouped ==
    /\ Returned
    /\ text = <<"average", "salary", "by", "department", "sorted", "by", "name", "desc">>
    /\ Len(components.order_by) = 3
    /\ Len(components.group_by) = 4
====
